---- MODULE Spec2Model ----
(***************************************************************************)
(* Webhook-driven meeting lifecycle: the POST handler of                   *)
(* src/app/api/webhook/route.ts and the meetings/processing job of         *)
(* src/inngest/functions.ts, acting on the meetings table.                 *)
(*                                                                         *)
(* Every await on the database, on the job runner or on the video service  *)
(* is one atomic step; the code between two awaits is local to a request   *)
(* and is folded into the step that follows it.  Calls of the webhook on   *)
(* the database, the job runner and the video service are taken to return: *)
(* a throw there leaves POST uncaught and is outside the responses the     *)
(* handler itself builds.                                                  *)
(***************************************************************************)
EXTENDS Integers, Sequences, FiniteSets, TLC

\* ------------------------------------------------------------------ bounds
MaxDeliveries == 2      \* webhook deliveries in one behaviour
MaxInFlight == 2        \* webhook requests being handled at the same time
MaxJobs == 2            \* meetings/processing events sent in one behaviour

\* ------------------------------------------------------------- value sets
MeetingIds == {"m1", "m2"}             \* rows of the meetings table
UnknownId == "m0"                      \* an id that matches no row
NoId == "undefined"                    \* custom.meetingId / call_cid part absent
\* ids the deliveries name; row m2 is named by none and must stay as it is
RequestIds == {"m1", UnknownId, NoId}
AgentIds == {"a1", "a2"}
Urls == {"u1", "u2"}
NullUrl == "null"
NullText == "null"
NullTime == 0                          \* a timestamp column that is NULL
Statuses == {"upcoming", "active", "processing", "completed", "cancelled"}
Slots == 1..MaxInFlight

\* agentId column of each meeting row (set when the meeting is created)
AgentOf(m) == IF m = "m1" THEN "a1" ELSE "a2"

\* Bodies of a delivery.  json = FALSE is a body JSON.parse rejects.  The
\* fields present depend on the event type, as in the video SDK's event types.
MalformedBody == [json |-> FALSE, type |-> "none", meetingId |-> NoId, url |-> NullUrl]

\* An event of a kind the handler does not know, carrying the fields the
\* known kinds read (call.custom.meetingId, call_cid, a url).
OtherBody == [json |-> TRUE, type |-> "call.other", meetingId |-> "m1", url |-> "u1"]

Bodies ==
    {MalformedBody}
    \cup {OtherBody}
    \cup {[json |-> TRUE, type |-> t, meetingId |-> m, url |-> NullUrl] :
            t \in {"call.session_started", "call.session_ended"}, m \in RequestIds}
    \cup {[json |-> TRUE, type |-> "call.session_participant_left", meetingId |-> m,
            url |-> NullUrl] : m \in {"m1", NoId}}
    \cup {[json |-> TRUE, type |-> "call.transcription_ready", meetingId |-> m,
            url |-> u] : m \in RequestIds, u \in Urls}
    \cup {[json |-> TRUE, type |-> "call.recording_ready", meetingId |-> m,
            url |-> "u1"] : m \in RequestIds}

\* Bodies sent with headers that do not pass the checks: one per event type.
ProbeBodies ==
    {b \in Bodies : b.meetingId \in {"m1", NoId} /\ b.url \in {NullUrl, "u1"}
                    /\ (b.meetingId = NoId => b.type = "none")}

\* Headers of a delivery with the verdict streamVideo.verifyWebhook gives on
\* (body, signature): x-signature absent; x-api-key absent beside a genuine
\* signature; both present with a signature that does not verify; all good.
GoodHeaders == [hasSignature |-> TRUE, hasApiKey |-> TRUE, verified |-> TRUE]

BadHeaders ==
    { [hasSignature |-> FALSE, hasApiKey |-> TRUE, verified |-> FALSE],
      [hasSignature |-> TRUE, hasApiKey |-> FALSE, verified |-> TRUE],
      [hasSignature |-> TRUE, hasApiKey |-> TRUE, verified |-> FALSE] }

Request(h, b) == [hasSignature |-> h.hasSignature, hasApiKey |-> h.hasApiKey,
                  verified |-> h.verified, body |-> b]

Requests ==
    {Request(GoodHeaders, b) : b \in Bodies}
    \cup {Request(h, b) : h \in BadHeaders, b \in ProbeBodies}

NoRequest == [hasSignature |-> FALSE, hasApiKey |-> FALSE, verified |-> FALSE,
              body |-> [json |-> FALSE, type |-> "none", meetingId |-> NoId,
                        url |-> NullUrl]]

VARIABLES
    meetings,     \* meetings table: id -> row
    agents,       \* ids of the rows of the agents table
    inflight,     \* slot -> request suspended at an await
    response,     \* the last NextResponse returned, with its request
    nresp,        \* number of responses returned so far
    jobs,         \* meetings/processing events sent to the job runner, with run state
    endedCalls,   \* ids for which call.end() was invoked
    clock,            \* Date.now() in the browser, in milliseconds
    lastRequestTime,  \* lastRequestTime.current of the overlay
    lastFetch,        \* the time of the last fetch the overlay issued, 0 if none
    utterances,       \* number of calls of processWithFreeAI so far
    aiResponse,       \* the text the overlay displays
    post,             \* the invocation of the voice endpoint that is in flight
    reply,            \* the last response of the voice endpoint, with its request
    hasKey,           \* process.env.GEMINI_API_KEY is set
    runs,         \* runs of meetingsProcessing, with their checkpoints
    file,         \* what the transcript url serves
    users         \* ids of the rows of the user table

webVars == <<meetings, agents, inflight, response, nresp, jobs, endedCalls>>

voiceVars == <<clock, lastRequestTime, lastFetch, utterances, aiResponse, post,
               reply, hasKey>>

pipeVars == <<runs, file, users>>

vars == <<webVars, voiceVars, pipeVars>>

Idle == [pc |-> "idle", req |-> NoRequest, id |-> NoId, agentId |-> "none",
         transcriptUrl |-> NullUrl]

NoResponse == [req |-> NoRequest, status |-> 0, error |-> "none"]

NewRow(m) == [status |-> "upcoming", agentId |-> AgentOf(m), transcriptUrl |-> NullUrl,
              recordingUrl |-> NullUrl, summary |-> NullText,
              startedAt |-> NullTime, endedAt |-> NullTime]

\* Rows a meeting can be found in when a behaviour starts: as created
\* (upcoming), cancelled by the application, or as left by earlier deliveries
\* and an earlier pipeline run.
InitialRows(m) ==
    { NewRow(m),
      [NewRow(m) EXCEPT !.status = "cancelled"],
      [NewRow(m) EXCEPT !.status = "active", !.startedAt = 1],
      [NewRow(m) EXCEPT !.status = "processing", !.startedAt = 1, !.endedAt = 1],
      [NewRow(m) EXCEPT !.status = "completed", !.startedAt = 1, !.endedAt = 1,
                        !.transcriptUrl = "u1", !.summary = "s1"] }

\* ---------------------------------------- the parts of the state at rest
\* Each specification below moves one part of the state and holds the
\* others at rest.
AbsentText == "undefined"  \* a field that is not there


\* the body JSON.stringify({text}) makes
VoiceBody(text) == [json |-> TRUE, text |-> text]

NoPost == [pc |-> "idle", from |-> "none", body |-> VoiceBody(AbsentText)]

NoReply == [req |-> VoiceBody(AbsentText), status |-> 0, error |-> AbsentText,
            details |-> AbsentText, response |-> AbsentText, success |-> FALSE,
            thrownBy |-> "none", thrown |-> AbsentText]

VoiceAtRest ==
    /\ clock = 0
    /\ lastRequestTime = 0
    /\ lastFetch = 0
    /\ utterances = 0
    /\ aiResponse = ""
    /\ post = NoPost
    /\ reply = NoReply
    /\ hasKey = TRUE

\* what the transcript url serves: JSONL of these items, or text that
\* JSONL.parse rejects
TranscriptFile(ids) == [wellFormed |-> TRUE, ids |-> ids]

BadFile == [wellFormed |-> FALSE, ids |-> <<>>]

PipeAtRest ==
    /\ runs = <<>>
    /\ file = BadFile
    /\ users = {}

WebAtRest ==
    /\ meetings = [m \in MeetingIds |-> NewRow(m)]
    /\ agents = AgentIds
    /\ inflight = [s \in Slots |-> Idle]
    /\ response = NoResponse
    /\ nresp = 0
    /\ jobs = <<>>
    /\ endedCalls = {}

\* The agents table is never written by the core.
Init ==
    /\ meetings \in {f \in [MeetingIds -> UNION {InitialRows(m) : m \in MeetingIds}] :
                        /\ f["m1"] \in InitialRows("m1")
                        /\ f["m2"] = NewRow("m2")}
    /\ agents \in {AgentIds, AgentIds \ {"a1"}}
    /\ inflight = [s \in Slots |-> Idle]
    /\ response = NoResponse
    /\ nresp = 0
    /\ jobs = <<>>
    /\ endedCalls = {}
    /\ VoiceAtRest
    /\ PipeAtRest

\* ----------------------------------------------------------- webhook POST

\* new Date(): time is counted in responses returned so far; the rows a
\* behaviour starts with carry time 1
Date == nresp + 2

\* return NextResponse.json(..., {status}) from slot s
Respond(s, rq, st, err) ==
    /\ response' = [req |-> rq, status |-> st, error |-> err]
    /\ nresp' = nresp + 1
    /\ inflight' = [inflight EXCEPT ![s] = Idle]

\* SelectStartable with the not(eq(status, "active")) condition left out
SelectStartable_NoActive(m) ==
    IF /\ m \in DOMAIN meetings
       /\ meetings[m].status # "completed"
       /\ meetings[m].status # "cancelled"
       /\ meetings[m].status # "processing"
    THEN {m} ELSE {}

\* the guarded select of call.session_started
SelectStartable(m) ==
    IF /\ m \in DOMAIN meetings
       /\ meetings[m].status # "completed"
       /\ meetings[m].status # "active"
       /\ meetings[m].status # "cancelled"
       /\ meetings[m].status # "processing"
    THEN {m} ELSE {}

\* rows matched by where(eq(meetings.id, m)); an undefined id matches none
RowsById(m) == IF m \in DOMAIN meetings THEN {m} ELSE {}

SessionStarted(s, rq) ==
    LET m == rq.body.meetingId IN
    IF m = NoId
    THEN /\ Respond(s, rq, 400, "Missing meetingId")
         /\ UNCHANGED <<meetings, jobs, endedCalls>>
    ELSE IF SelectStartable(m) = {}
    THEN /\ Respond(s, rq, 404, "Meeting not found")
         /\ UNCHANGED <<meetings, jobs, endedCalls>>
    ELSE /\ inflight' = [inflight EXCEPT ![s] =
                [pc |-> "update", req |-> rq, id |-> m,
                 agentId |-> meetings[m].agentId, transcriptUrl |-> NullUrl]]
         /\ UNCHANGED <<meetings, jobs, endedCalls, response, nresp>>

ParticipantLeft(s, rq) ==
    LET m == rq.body.meetingId IN
    IF m = NoId
    THEN /\ Respond(s, rq, 400, "Missing meetingId ")
         /\ UNCHANGED <<meetings, jobs, endedCalls>>
    ELSE /\ endedCalls' = endedCalls \cup {m}
         /\ Respond(s, rq, 200, "ok")
         /\ UNCHANGED <<meetings, jobs>>

\* SessionEnded without the eq(meetings.status, "active") condition
SessionEnded_AnyStatus(s, rq) ==
    LET m == rq.body.meetingId IN
    IF m = NoId
    THEN /\ Respond(s, rq, 400, "Missing meetingId")
         /\ UNCHANGED <<meetings, jobs, endedCalls>>
    ELSE /\ meetings' = [x \in DOMAIN meetings |->
                IF x = m
                THEN [meetings[x] EXCEPT !.status = "processing", !.endedAt = Date]
                ELSE meetings[x]]
         /\ Respond(s, rq, 200, "ok")
         /\ UNCHANGED <<jobs, endedCalls>>

\* SessionEnded setting status completed
SessionEnded_Completes(s, rq) ==
    LET m == rq.body.meetingId IN
    IF m = NoId
    THEN /\ Respond(s, rq, 400, "Missing meetingId")
         /\ UNCHANGED <<meetings, jobs, endedCalls>>
    ELSE /\ meetings' = [x \in DOMAIN meetings |->
                IF x = m /\ meetings[x].status = "active"
                THEN [meetings[x] EXCEPT !.status = "completed", !.endedAt = Date]
                ELSE meetings[x]]
         /\ Respond(s, rq, 200, "ok")
         /\ UNCHANGED <<jobs, endedCalls>>

SessionEnded(s, rq) ==
    LET m == rq.body.meetingId IN
    IF m = NoId
    THEN /\ Respond(s, rq, 400, "Missing meetingId")
         /\ UNCHANGED <<meetings, jobs, endedCalls>>
    ELSE /\ meetings' = [x \in DOMAIN meetings |->
                IF x = m /\ meetings[x].status = "active"
                THEN [meetings[x] EXCEPT !.status = "processing", !.endedAt = Date]
                ELSE meetings[x]]
         /\ Respond(s, rq, 200, "ok")
         /\ UNCHANGED <<jobs, endedCalls>>

\* TranscriptionReady without the if(!updateMeeting) return
TranscriptionReady_NoCheck(s, rq) ==
    LET m == rq.body.meetingId IN
    /\ meetings' = [x \in DOMAIN meetings |->
            IF x \in RowsById(m)
            THEN [meetings[x] EXCEPT !.transcriptUrl = rq.body.url]
            ELSE meetings[x]]
    /\ inflight' = [inflight EXCEPT ![s] =
            [pc |-> "send", req |-> rq, id |-> m, agentId |-> "none",
             transcriptUrl |-> IF m \in DOMAIN meetings
                               THEN meetings'[m].transcriptUrl ELSE NullUrl]]
    /\ UNCHANGED <<jobs, endedCalls, response, nresp>>

\* TranscriptionReady setting recordingUrl instead of transcriptUrl
TranscriptionReady_WrongColumn(s, rq) ==
    LET m == rq.body.meetingId IN
    /\ meetings' = [x \in DOMAIN meetings |->
            IF x \in RowsById(m)
            THEN [meetings[x] EXCEPT !.recordingUrl = rq.body.url]
            ELSE meetings[x]]
    /\ IF RowsById(m) = {}
       THEN /\ Respond(s, rq, 400, "Meeting not found ")
            /\ UNCHANGED <<jobs, endedCalls>>
       ELSE /\ inflight' = [inflight EXCEPT ![s] =
                   [pc |-> "send", req |-> rq, id |-> m, agentId |-> "none",
                    transcriptUrl |-> meetings'[m].transcriptUrl]]
            /\ UNCHANGED <<jobs, endedCalls, response, nresp>>

TranscriptionReady(s, rq) ==
    LET m == rq.body.meetingId IN
    /\ meetings' = [x \in DOMAIN meetings |->
            IF x \in RowsById(m)
            THEN [meetings[x] EXCEPT !.transcriptUrl = rq.body.url]
            ELSE meetings[x]]
    /\ IF RowsById(m) = {}
       THEN /\ Respond(s, rq, 400, "Meeting not found ")
            /\ UNCHANGED <<jobs, endedCalls>>
       ELSE /\ inflight' = [inflight EXCEPT ![s] =
                   [pc |-> "send", req |-> rq, id |-> m, agentId |-> "none",
                    transcriptUrl |-> meetings'[m].transcriptUrl]]
            /\ UNCHANGED <<jobs, endedCalls, response, nresp>>

RecordingReady(s, rq) ==
    LET m == rq.body.meetingId IN
    /\ meetings' = [x \in DOMAIN meetings |->
            IF x \in RowsById(m)
            THEN [meetings[x] EXCEPT !.recordingUrl = rq.body.url]
            ELSE meetings[x]]
    /\ Respond(s, rq, 200, "ok")
    /\ UNCHANGED <<jobs, endedCalls>>

\* Route with the last branch a plain else
Route_ElseRecording(s, rq) ==
    IF rq.body.type = "call.session_started" THEN SessionStarted(s, rq)
    ELSE IF rq.body.type = "call.session_participant_left" THEN ParticipantLeft(s, rq)
    ELSE IF rq.body.type = "call.session_ended" THEN SessionEnded(s, rq)
    ELSE IF rq.body.type = "call.transcription_ready" THEN TranscriptionReady(s, rq)
    ELSE RecordingReady(s, rq)

\* the if / else-if chain on eventType
Route(s, rq) ==
    IF rq.body.type = "call.session_started" THEN SessionStarted(s, rq)
    ELSE IF rq.body.type = "call.session_participant_left" THEN ParticipantLeft(s, rq)
    ELSE IF rq.body.type = "call.session_ended" THEN SessionEnded(s, rq)
    ELSE IF rq.body.type = "call.transcription_ready" THEN TranscriptionReady(s, rq)
    ELSE IF rq.body.type = "call.recording_ready" THEN RecordingReady(s, rq)
    ELSE /\ Respond(s, rq, 200, "ok")
         /\ UNCHANGED <<meetings, jobs, endedCalls>>

\* Dispatch without the verifySignatureWithSDK check
Dispatch_NoVerify(s, rq) ==
    IF ~rq.hasSignature \/ ~rq.hasApiKey
    THEN /\ Respond(s, rq, 400, "Missing signature or API key")
         /\ UNCHANGED <<meetings, jobs, endedCalls>>
    ELSE IF ~rq.body.json
    THEN /\ Respond(s, rq, 400, "Invalid JSON ")
         /\ UNCHANGED <<meetings, jobs, endedCalls>>
    ELSE Route(s, rq)

\* POST up to its first await on a shared service
Dispatch(s, rq) ==
    IF ~rq.hasSignature \/ ~rq.hasApiKey
    THEN /\ Respond(s, rq, 400, "Missing signature or API key")
         /\ UNCHANGED <<meetings, jobs, endedCalls>>
    ELSE IF ~rq.verified
    THEN /\ Respond(s, rq, 401, "Invalid signature")
         /\ UNCHANGED <<meetings, jobs, endedCalls>>
    ELSE IF ~rq.body.json
    THEN /\ Respond(s, rq, 400, "Invalid JSON ")
         /\ UNCHANGED <<meetings, jobs, endedCalls>>
    ELSE Route(s, rq)

\* requests suspended at an await
Busy == {t \in Slots : inflight[t].pc # "idle"}

\* A delivery arrives and runs to its first await or to its response.
Receive(s, rq) ==
    /\ inflight[s].pc = "idle"
    /\ \A t \in Slots : t < s => t \in Busy
    /\ nresp + Cardinality(Busy) < MaxDeliveries
    /\ rq.body.type = "call.transcription_ready" =>
           Len(jobs) + Cardinality({t \in Busy : inflight[t].pc = "send"}) < MaxJobs
    /\ Dispatch(s, rq)
    /\ UNCHANGED agents
    /\ UNCHANGED <<voiceVars, pipeVars>>

\* UpdateActive setting status only
UpdateActive_NoStartedAt(s) ==
    /\ inflight[s].pc = "update"
    /\ meetings' = [x \in DOMAIN meetings |->
            IF x = inflight[s].id
            THEN [meetings[x] EXCEPT !.status = "active"]
            ELSE meetings[x]]
    /\ inflight' = [inflight EXCEPT ![s].pc = "agent"]
    /\ UNCHANGED <<agents, response, nresp, jobs, endedCalls>>
    /\ UNCHANGED <<voiceVars, pipeVars>>

\* session_started: the update of the selected row
UpdateActive(s) ==
    /\ inflight[s].pc = "update"
    /\ meetings' = [x \in DOMAIN meetings |->
            IF x = inflight[s].id
            THEN [meetings[x] EXCEPT !.status = "active", !.startedAt = Date]
            ELSE meetings[x]]
    /\ inflight' = [inflight EXCEPT ![s].pc = "agent"]
    /\ UNCHANGED <<agents, response, nresp, jobs, endedCalls>>
    /\ UNCHANGED <<voiceVars, pipeVars>>

\* session_started: the agent lookup and the return
LookupAgent(s) ==
    /\ inflight[s].pc = "agent"
    /\ IF inflight[s].agentId \in agents
       THEN Respond(s, inflight[s].req, 200, "ok")
       ELSE Respond(s, inflight[s].req, 404, "Agent not found")
    /\ UNCHANGED <<meetings, agents, jobs, endedCalls>>
    /\ UNCHANGED <<voiceVars, pipeVars>>

NewJob(m, u) == [meetingId |-> m, transcriptUrl |-> u, step |-> 0,
                 state |-> "running", summary |-> NullText]

\* SendJob returning without inngest.send
SendJob_NoSend(s) ==
    /\ inflight[s].pc = "send"
    /\ jobs' = jobs
    /\ Respond(s, inflight[s].req, 200, "ok")
    /\ UNCHANGED <<meetings, agents, endedCalls>>
    /\ UNCHANGED <<voiceVars, pipeVars>>

\* transcription_ready: inngest.send and the return
SendJob(s) ==
    /\ inflight[s].pc = "send"
    /\ jobs' = Append(jobs, NewJob(inflight[s].id, inflight[s].transcriptUrl))
    /\ Respond(s, inflight[s].req, 200, "ok")
    /\ UNCHANGED <<meetings, agents, endedCalls>>
    /\ UNCHANGED <<voiceVars, pipeVars>>

\* ------------------------------------------- meetings/processing pipeline

\* texts result.text can be: a summary, or empty/undefined
AiTexts == {"s1", ""}

\* SummaryOf without the || fallback
SummaryOf_Raw(text) == text

\* result.text || "Summary generation failed"
SummaryOf(text) == IF text = "" THEN "Summary generation failed" ELSE text

Runnable(j, k) ==
    /\ j \in 1..Len(jobs)
    /\ jobs[j].state = "running"
    /\ jobs[j].step = k

\* step.run checkpoints the result of a step that returned
Checkpoint(j) == [jobs EXCEPT ![j].step = @ + 1]

FetchTranscript(j) ==
    /\ Runnable(j, 0)
    /\ jobs' = Checkpoint(j)
    /\ UNCHANGED <<meetings, agents, inflight, response, nresp, endedCalls>>
    /\ UNCHANGED <<voiceVars, pipeVars>>

ParseTranscript(j) ==
    /\ Runnable(j, 1)
    /\ jobs' = Checkpoint(j)
    /\ UNCHANGED <<meetings, agents, inflight, response, nresp, endedCalls>>
    /\ UNCHANGED <<voiceVars, pipeVars>>

AddSpeakers(j) ==
    /\ Runnable(j, 2)
    /\ jobs' = Checkpoint(j)
    /\ UNCHANGED <<meetings, agents, inflight, response, nresp, endedCalls>>
    /\ UNCHANGED <<voiceVars, pipeVars>>

GenerateSummary(j, text) ==
    /\ Runnable(j, 3)
    /\ jobs' = [Checkpoint(j) EXCEPT ![j].summary = SummaryOf(text)]
    /\ UNCHANGED <<meetings, agents, inflight, response, nresp, endedCalls>>
    /\ UNCHANGED <<voiceVars, pipeVars>>

SaveSummary(j) ==
    /\ Runnable(j, 4)
    /\ meetings' = [x \in DOMAIN meetings |->
            IF x = jobs[j].meetingId
            THEN [meetings[x] EXCEPT !.summary = jobs[j].summary,
                                     !.status = "completed"]
            ELSE meetings[x]]
    /\ jobs' = [Checkpoint(j) EXCEPT ![j].state = "done"]
    /\ UNCHANGED <<agents, inflight, response, nresp, endedCalls>>
    /\ UNCHANGED <<voiceVars, pipeVars>>

\* A step throws (fetch or database error, malformed transcript, Gemini
\* error) and the runner gives the run up.  A throw the runner answers with
\* a retry leaves the run at the same step, with the checkpoints it has:
\* it changes nothing.
StepFails(j) ==
    /\ j \in 1..Len(jobs)
    /\ jobs[j].state = "running"
    /\ jobs' = [jobs EXCEPT ![j].state = "failed"]
    /\ UNCHANGED <<meetings, agents, inflight, response, nresp, endedCalls>>
    /\ UNCHANGED <<voiceVars, pipeVars>>

JobIds == 1..MaxJobs

Next ==
    \/ \E s \in Slots, rq \in Requests : Receive(s, rq)
    \/ \E s \in Slots : UpdateActive(s)
    \/ \E s \in Slots : LookupAgent(s)
    \/ \E s \in Slots : SendJob(s)
    \/ \E j \in JobIds : FetchTranscript(j)
    \/ \E j \in JobIds : ParseTranscript(j)
    \/ \E j \in JobIds : AddSpeakers(j)
    \/ \E j \in JobIds, text \in AiTexts : GenerateSummary(j, text)
    \/ \E j \in JobIds : SaveSummary(j)
    \/ \E j \in JobIds : StepFails(j)

Spec == Init /\ [][Next]_vars

\* ------------------------------------------------ one meeting's lifecycle
\* The video platform delivers, for the upcoming meeting m1, session_started,
\* then session_ended, then transcription_ready; a delivery may arrive while
\* the one before it is still being handled.
LifecycleKinds == <<"call.session_started", "call.session_ended",
                    "call.transcription_ready">>

\* deliveries that have arrived
Received == nresp + Cardinality(Busy)

Deliver(s, rq) ==
    /\ inflight[s].pc = "idle"
    /\ \A t \in Slots : t < s => t \in Busy
    /\ Received < Len(LifecycleKinds)
    /\ rq.body.type = LifecycleKinds[Received + 1]
    /\ rq.body.meetingId = "m1"
    /\ Dispatch(s, rq)
    /\ UNCHANGED agents
    /\ UNCHANGED <<voiceVars, pipeVars>>

LifecycleRequests == {Request(GoodHeaders, b) : b \in Bodies}

LiveInit ==
    /\ meetings = [m \in MeetingIds |-> NewRow(m)]
    /\ agents \in {AgentIds, AgentIds \ {"a1"}}
    /\ inflight = [s \in Slots |-> Idle]
    /\ response = NoResponse
    /\ nresp = 0
    /\ jobs = <<>>
    /\ endedCalls = {}
    /\ VoiceAtRest
    /\ PipeAtRest

\* the deliveries arrive
LiveDeliveries == \E s \in Slots, rq \in LifecycleRequests : Deliver(s, rq)

\* an invocation of POST suspended at an await resumes
LiveHandlers ==
    \/ \E s \in Slots : UpdateActive(s)
    \/ \E s \in Slots : LookupAgent(s)
    \/ \E s \in Slots : SendJob(s)

\* the runner executes the next step of a run, and the step returns
LiveRunner ==
    \/ \E j \in JobIds : FetchTranscript(j)
    \/ \E j \in JobIds : ParseTranscript(j)
    \/ \E j \in JobIds : AddSpeakers(j)
    \/ \E j \in JobIds, text \in AiTexts : GenerateSummary(j, text)
    \/ \E j \in JobIds : SaveSummary(j)

LiveNext ==
    \/ LiveDeliveries
    \/ LiveHandlers
    \/ LiveRunner
    \/ \E j \in JobIds : StepFails(j)

\* Every delivery of the lifecycle arrives, every await of the handler
\* returns, and the runner keeps executing a run that has a step to
\* execute.  Nothing obliges a step to throw for good.
LiveSpec ==
    /\ LiveInit
    /\ [][LiveNext]_vars
    /\ WF_vars(LiveDeliveries)
    /\ WF_vars(LiveHandlers)
    /\ WF_vars(LiveRunner)

TypeOK ==
    /\ \A m \in DOMAIN meetings : meetings[m].status \in Statuses
    /\ nresp \in 0..MaxDeliveries

\* =========================================================================
\* Voice assistant: processWithFreeAI of call-active.tsx and the POST handler
\* of api/ai/process-speech/route.ts.  One invocation of the endpoint is in
\* flight at a time: invocations share no state, so one stands for each.
\* =========================================================================

MaxElapsed == 4000         \* milliseconds a behaviour spans
MaxUtterances == 3         \* finalized utterances handed to processWithFreeAI

MIN_REQUEST_INTERVAL == 3000
Mounted == 10000           \* Date.now() when the overlay mounts
Delays == {500, 1000}      \* milliseconds between two events

\* request bodies: what JSON.stringify({text}) sends, and what any other
\* client may post (text empty or absent, or a body that is not JSON)
RawBody(raw) == [json |-> FALSE, text |-> raw]

SpokenTexts == {"what is next"}

DirectBodies == {VoiceBody("tell me more"), VoiceBody(""), VoiceBody(AbsentText),
                 RawBody("{"), RawBody("quota")}

\* String(error) of what req.json() throws on a body that is not JSON: the
\* SyntaxError names the offending token and, on engines that quote the
\* source text in the message, the body itself.
ParseErrors(b) ==
    {"SyntaxError: Unexpected token"}
    \cup (IF b.text = "quota"
          THEN {"SyntaxError: Unexpected token 'q', \"quota\" is not valid JSON"}
          ELSE {})

\* String(error) of what generateContent throws
AiErrors == {"429 You exceeded your current quota", "RESOURCE_EXHAUSTED",
             "fetch failed"}

\* errorStr.includes(sub), on the error strings above
Includes(str, sub) ==
    <<str, sub>> \in
       { <<"429 You exceeded your current quota", "quota">>,
         <<"RESOURCE_EXHAUSTED", "RESOURCE_EXHAUSTED">>,
         <<"SyntaxError: Unexpected token 'q', \"quota\" is not valid JSON", "quota">> }

QuotaError == "API quota exceeded. Please check your Gemini API key at https://aistudio.google.com/app/apikey or wait a moment and try again."

\* what the overlay shows for a response of the endpoint
Shown(st, err, det, resp) ==
    IF st = 200 THEN resp
    ELSE IF st = 429 \/ err = QuotaError
    THEN "Quota limit reached. Please wait a moment before trying again."
    ELSE "Error: " \o (IF det \notin {AbsentText, ""} THEN det ELSE err)

\* return NextResponse.json(...); the overlay shows the response of its own
\* request
VoiceRespond(from, b, st, err, det, resp, by, e) ==
    /\ reply' = [req |-> b, status |-> st, error |-> err, details |-> det,
                 response |-> resp, success |-> (st = 200),
                 thrownBy |-> by, thrown |-> e]
    /\ post' = NoPost
    /\ aiResponse' = IF from = "overlay" THEN Shown(st, err, det, resp)
                     ELSE aiResponse

\* the catch block
Catch(from, b, e, by) ==
    IF Includes(e, "quota") \/ Includes(e, "RESOURCE_EXHAUSTED")
    THEN VoiceRespond(from, b, 429, QuotaError, "Quota limit reached",
                      AbsentText, by, e)
    ELSE VoiceRespond(from, b, 500, "Failed to process with AI", e,
                      AbsentText, by, e)

\* POST up to its await on the AI, or to its response
EndpointPost(from, b) ==
    IF ~hasKey
    THEN VoiceRespond(from, b, 500,
             "AI service not configured. Please set GEMINI_API_KEY in environment variables.",
             AbsentText, AbsentText, "none", AbsentText)
    ELSE IF ~b.json
    THEN \E e \in ParseErrors(b) : Catch(from, b, e, "body")
    ELSE IF b.text \in {AbsentText, ""}
    THEN VoiceRespond(from, b, 400, "No text provided", AbsentText, AbsentText,
                      "none", AbsentText)
    ELSE /\ post' = [pc |-> "ai", from |-> from, body |-> b]
         /\ UNCHANGED <<reply, aiResponse>>

\* result.text || "Sorry, I couldn't process that."
ReplyOf(text) == IF text = "" THEN "Sorry, I couldn't process that." ELSE text

\* generateContent returns, and POST returns 200
AiReturns(text) ==
    /\ post.pc = "ai"
    /\ VoiceRespond(post.from, post.body, 200, AbsentText, AbsentText,
                    ReplyOf(text), "none", AbsentText)
    /\ UNCHANGED <<clock, lastRequestTime, lastFetch, utterances, hasKey>>
    /\ UNCHANGED <<webVars, pipeVars>>

\* generateContent throws, and POST returns from the catch block
AiThrows(e) ==
    /\ post.pc = "ai"
    /\ Catch(post.from, post.body, e, "ai")
    /\ UNCHANGED <<clock, lastRequestTime, lastFetch, utterances, hasKey>>
    /\ UNCHANGED <<webVars, pipeVars>>

\* a client other than the overlay posts to the endpoint
DirectPost(b) ==
    /\ post.pc = "idle"
    /\ EndpointPost("direct", b)
    /\ UNCHANGED <<clock, lastRequestTime, lastFetch, utterances, hasKey>>
    /\ UNCHANGED <<webVars, pipeVars>>

\* Math.ceil(ms / 1000) rounding down instead
WaitTime_Floor(since) == (MIN_REQUEST_INTERVAL - since) \div 1000

\* Math.ceil((MIN_REQUEST_INTERVAL - timeSinceLastRequest) / 1000)
WaitTime(since) == ((MIN_REQUEST_INTERVAL - since) + 999) \div 1000

\* `Please wait ${waitTime} seconds...`
WaitMessage(n) == "Please wait " \o ToString(n) \o " seconds..."

\* processWithFreeAI(text) up to its fetch.  The fetch reaches the endpoint,
\* or throws and the overlay shows the connection error.
Utterance(text) ==
    /\ utterances < MaxUtterances
    /\ utterances' = utterances + 1
    /\ LET timeSinceLastRequest == clock - lastRequestTime IN
       IF timeSinceLastRequest < MIN_REQUEST_INTERVAL
       THEN /\ aiResponse' = WaitMessage(WaitTime(timeSinceLastRequest))
            /\ UNCHANGED <<lastRequestTime, lastFetch, post, reply>>
       ELSE /\ lastRequestTime' = clock
            /\ lastFetch' = clock
            /\ \/ /\ post.pc = "idle"
                  /\ EndpointPost("overlay", VoiceBody(text))
               \/ /\ aiResponse' = "Error: Failed to connect to AI service"
                  /\ UNCHANGED <<post, reply>>
    /\ UNCHANGED <<clock, hasKey>>
    /\ UNCHANGED <<webVars, pipeVars>>

\* time passes
Tick(d) ==
    /\ clock + d <= Mounted + MaxElapsed
    /\ clock' = clock + d
    /\ UNCHANGED <<lastRequestTime, lastFetch, utterances, aiResponse, post,
                   reply, hasKey>>
    /\ UNCHANGED <<webVars, pipeVars>>

VoiceInit ==
    /\ WebAtRest
    /\ PipeAtRest
    /\ clock = Mounted
    /\ lastRequestTime = 0
    /\ lastFetch = 0
    /\ utterances = 0
    /\ aiResponse = ""
    /\ post = NoPost
    /\ reply = NoReply
    /\ hasKey \in BOOLEAN

VoiceNext ==
    \/ \E text \in SpokenTexts : Utterance(text)
    \/ \E d \in Delays : Tick(d)
    \/ \E b \in DirectBodies : DirectPost(b)
    \/ \E text \in AiTexts : AiReturns(text)
    \/ \E e \in AiErrors : AiThrows(e)

VoiceSpec == VoiceInit /\ [][VoiceNext]_vars

\* =========================================================================
\* One run of meetingsProcessing in detail.  The runner invokes the handler
\* again after every step: step.run hands back the checkpointed result of a
\* step that has one and runs the body of the first step that has none.  A
\* body that throws is run again by a later invocation, until the retries
\* of the run are used up.
\* =========================================================================

MaxItems == 2              \* items in a transcript
MaxRetries == 1            \* throws of one run the runner answers with a retry
MaxRuns == 2               \* runs started in one behaviour

UserIds == {"p1", "a1"}    \* ids of rows the user table may hold
SpeakerIds == {"p1", "a1", "x1"}

UserName(id) == "user " \o id

AgentName(id) == "agent " \o id

StepIds == <<"fetch-transcript", "parse-transcript", "add-speakers",
             "generate-summary", "save-summary">>

\* the items of a transcript whose speakers are ids[1], ids[2], ...
Items(ids) == [i \in 1..Len(ids) |-> [speaker_id |-> ids[i], start_ts |-> i]]

Files ==
    {BadFile} \cup
    {TranscriptFile(ids) : ids \in UNION {[1..n -> SpeakerIds] : n \in 0..MaxItems}}

NewRun(m, u) == [meetingId |-> m, transcriptUrl |-> u, memo |-> <<>>,
                 executing |-> "none", attempt |-> 0, state |-> "running",
                 error |-> "none"]

\* speakers.find((speaker) => speaker.id === id): the first row of
\* speakers with that id, or undefined
Find(speakers, id) ==
    IF \E i \in 1..Len(speakers) : speakers[i].id = id
    THEN speakers[CHOOSE i \in 1..Len(speakers) :
                     /\ speakers[i].id = id
                     /\ \A k \in 1..(i - 1) : speakers[k].id # id]
    ELSE [id |-> AbsentText, name |-> AbsentText]

\* the rows a select on the user table returns for these ids, in some order
RECURSIVE UserRows(_)
UserRows(ids) ==
    IF ids = {} THEN <<>>
    ELSE LET x == CHOOSE y \in ids : TRUE
         IN <<[id |-> x, name |-> UserName(x)]>> \o UserRows(ids \ {x})

\* the rows a select on the agents table returns for these ids
RECURSIVE AgentRows(_)
AgentRows(ids) ==
    IF ids = {} THEN <<>>
    ELSE LET x == CHOOSE y \in ids : TRUE
         IN <<[id |-> x, name |-> AgentName(x)]>> \o AgentRows(ids \ {x})

\* the body of add-speakers with speakers = agentSpeakers only
AddSpeakersBody_AgentsOnly(transcript, us, ags) ==
    LET speakerIds == {transcript[i].speaker_id : i \in 1..Len(transcript)}
        agentSpeakers == AgentRows(ags \cap speakerIds)
        speakers == agentSpeakers
    IN [i \in 1..Len(transcript) |->
           LET speaker == Find(speakers, transcript[i].speaker_id)
           IN IF speaker.id = AbsentText
              THEN [speaker_id |-> transcript[i].speaker_id,
                    start_ts |-> transcript[i].start_ts,
                    user |-> [name |-> "Unknown"]]
              ELSE [speaker_id |-> transcript[i].speaker_id,
                    start_ts |-> transcript[i].start_ts,
                    user |-> [name |-> speaker.name]]]

\* the body of add-speakers, on the user rows us and the agent rows ags
AddSpeakersBody(transcript, us, ags) ==
    LET speakerIds == {transcript[i].speaker_id : i \in 1..Len(transcript)}
        userSpeakers == UserRows(us \cap speakerIds)
        agentSpeakers == AgentRows(ags \cap speakerIds)
        speakers == userSpeakers \o agentSpeakers
    IN [i \in 1..Len(transcript) |->
           LET speaker == Find(speakers, transcript[i].speaker_id)
           IN IF speaker.id = AbsentText
              THEN [speaker_id |-> transcript[i].speaker_id,
                    start_ts |-> transcript[i].start_ts,
                    user |-> [name |-> "Unknown"]]
              ELSE [speaker_id |-> transcript[i].speaker_id,
                    start_ts |-> transcript[i].start_ts,
                    user |-> [name |-> speaker.name]]]

\* the checkpointed result of the k-th step of run j
Result(j, k) == runs[j].memo[k].data

Executing(j, k) ==
    /\ j \in 1..Len(runs)
    /\ runs[j].state = "running"
    /\ runs[j].executing = StepIds[k]

\* step.run checkpoints the value the body returned
Returned(j, k, data) ==
    [runs EXCEPT ![j].memo = Append(@, [id |-> StepIds[k], data |-> data]),
                 ![j].executing = "none"]

\* BeginStep running the handler from its first step after a throw
BeginStep_FromTop(j) ==
    /\ j \in 1..Len(runs)
    /\ runs[j].state = "running"
    /\ runs[j].executing = "none"
    /\ Len(runs[j].memo) < Len(StepIds)
    /\ runs' = [runs EXCEPT ![j].executing =
                   IF runs[j].attempt > 0 THEN StepIds[1]
                   ELSE StepIds[Len(runs[j].memo) + 1]]
    /\ UNCHANGED <<meetings, agents, file, users>>
    /\ UNCHANGED <<inflight, response, nresp, jobs, endedCalls, voiceVars>>

\* An invocation of the handler reaches the first step.run that has no
\* checkpoint and starts its body.  Nothing in createFunction's options
\* relates one run to another.
BeginStep(j) ==
    /\ j \in 1..Len(runs)
    /\ runs[j].state = "running"
    /\ runs[j].executing = "none"
    /\ Len(runs[j].memo) < Len(StepIds)
    /\ runs' = [runs EXCEPT ![j].executing = StepIds[Len(runs[j].memo) + 1]]
    /\ UNCHANGED <<meetings, agents, file, users>>
    /\ UNCHANGED <<inflight, response, nresp, jobs, endedCalls, voiceVars>>

FetchReturns(j) ==
    /\ Executing(j, 1)
    /\ runs' = Returned(j, 1, file)
    /\ UNCHANGED <<meetings, agents, file, users>>
    /\ UNCHANGED <<inflight, response, nresp, jobs, endedCalls, voiceVars>>

ParseReturns(j) ==
    /\ Executing(j, 2)
    /\ Result(j, 1).wellFormed
    /\ runs' = Returned(j, 2, Items(Result(j, 1).ids))
    /\ UNCHANGED <<meetings, agents, file, users>>
    /\ UNCHANGED <<inflight, response, nresp, jobs, endedCalls, voiceVars>>

AddSpeakersReturns(j) ==
    /\ Executing(j, 3)
    /\ runs' = Returned(j, 3, AddSpeakersBody(Result(j, 2), users, agents))
    /\ UNCHANGED <<meetings, agents, file, users>>
    /\ UNCHANGED <<inflight, response, nresp, jobs, endedCalls, voiceVars>>

GenerateReturns(j, text) ==
    /\ Executing(j, 4)
    /\ runs' = Returned(j, 4, SummaryOf(text))
    /\ UNCHANGED <<meetings, agents, file, users>>
    /\ UNCHANGED <<inflight, response, nresp, jobs, endedCalls, voiceVars>>

\* SaveReturns adding the summary to the one the row holds
SaveReturns_Appends(j) ==
    /\ Executing(j, 5)
    /\ meetings' = [x \in DOMAIN meetings |->
            IF x = runs[j].meetingId
            THEN [meetings[x] EXCEPT
                     !.summary = IF @ = NullText THEN Result(j, 4)
                                 ELSE @ \o Result(j, 4),
                     !.status = "completed"]
            ELSE meetings[x]]
    /\ runs' = [Returned(j, 5, NullText) EXCEPT ![j].state = "done"]
    /\ UNCHANGED <<agents, file, users>>
    /\ UNCHANGED <<inflight, response, nresp, jobs, endedCalls, voiceVars>>

SaveReturns(j) ==
    /\ Executing(j, 5)
    /\ meetings' = [x \in DOMAIN meetings |->
            IF x = runs[j].meetingId
            THEN [meetings[x] EXCEPT !.summary = Result(j, 4),
                                     !.status = "completed"]
            ELSE meetings[x]]
    /\ runs' = [Returned(j, 5, NullText) EXCEPT ![j].state = "done"]
    /\ UNCHANGED <<agents, file, users>>
    /\ UNCHANGED <<inflight, response, nresp, jobs, endedCalls, voiceVars>>

\* the runner's answer to a throw: another invocation, or the run fails
Thrown(j, cause) ==
    [runs EXCEPT ![j].executing = "none",
                 ![j].error = IF runs[j].attempt < MaxRetries THEN @ ELSE cause,
                 ![j].attempt = IF @ < MaxRetries THEN @ + 1 ELSE @,
                 ![j].state = IF runs[j].attempt < MaxRetries
                              THEN "running" ELSE "failed"]

\* what makes the body of each step throw: the fetch, JSONL.parse on text
\* that is not JSONL, the database, the Gemini call
ThrowCause == <<"fetch", "parse", "database", "gemini", "database">>

StepThrows(j, k) ==
    /\ Executing(j, k)
    /\ k = 2 => ~Result(j, 1).wellFormed
    /\ runs' = Thrown(j, ThrowCause[k])
    /\ UNCHANGED <<meetings, agents, file, users>>
    /\ UNCHANGED <<inflight, response, nresp, jobs, endedCalls, voiceVars>>

\* inArray(column, []) : releases of the ORM differ on an empty list of
\* values, some throw and some match no row
EmptyInArrayThrows(j) ==
    /\ Executing(j, 3)
    /\ Result(j, 2) = <<>>
    /\ runs' = Thrown(j, "inArray")
    /\ UNCHANGED <<meetings, agents, file, users>>
    /\ UNCHANGED <<inflight, response, nresp, jobs, endedCalls, voiceVars>>

RunIds == 1..MaxRuns

StepNumbers == 1..Len(StepIds)

PipeNext ==
    \/ \E j \in RunIds : BeginStep(j)
    \/ \E j \in RunIds : FetchReturns(j)
    \/ \E j \in RunIds : ParseReturns(j)
    \/ \E j \in RunIds : AddSpeakersReturns(j)
    \/ \E j \in RunIds, text \in AiTexts : GenerateReturns(j, text)
    \/ \E j \in RunIds : SaveReturns(j)
    \/ \E j \in RunIds, k \in StepNumbers : StepThrows(j, k)
    \/ \E j \in RunIds : EmptyInArrayThrows(j)

\* the meeting of the run has ended and awaits its summary
EndedRow(m) == [NewRow(m) EXCEPT !.status = "processing", !.startedAt = 1,
                                 !.endedAt = 1, !.transcriptUrl = "u1"]

\* one run, on every transcript file and every content of the two tables
PipeInit ==
    /\ meetings = [m \in MeetingIds |-> IF m = "m1" THEN EndedRow(m) ELSE NewRow(m)]
    /\ agents \in {AgentIds, AgentIds \ {"a1"}}
    /\ inflight = [s \in Slots |-> Idle]
    /\ response = NoResponse
    /\ nresp = 0
    /\ jobs = <<>>
    /\ endedCalls = {}
    /\ VoiceAtRest
    /\ runs = <<NewRun("m1", "u1")>>
    /\ file \in Files
    /\ users \in SUBSET UserIds

PipeSpec == PipeInit /\ [][PipeNext]_vars

\* up to MaxRuns runs, the first for m1 and the others for m1 or m2, as
\* sent by transcription-ready deliveries
RunnerInit ==
    /\ meetings = [m \in MeetingIds |-> EndedRow(m)]
    /\ agents = AgentIds
    /\ inflight = [s \in Slots |-> Idle]
    /\ response = NoResponse
    /\ nresp = 0
    /\ jobs = <<>>
    /\ endedCalls = {}
    /\ VoiceAtRest
    /\ runs \in {r \in UNION {[1..n -> {NewRun(m, "u1") : m \in MeetingIds}] :
                                 n \in 1..MaxRuns} :
                    r[1].meetingId = "m1"}
    /\ file \in {TranscriptFile(<<>>), TranscriptFile(<<"p1">>)}
    /\ users = {"p1"}

RunnerSpec == RunnerInit /\ [][PipeNext]_vars

\* The runner executes run j again from the checkpoint before its k-th
\* step (a rerun of the run from that step, or checkpoints the runner did
\* not keep): the results of step k and of the steps after it are dropped,
\* and their bodies run again.
Replay(j, k) ==
    /\ j \in 1..Len(runs)
    /\ runs[j].state \in {"running", "done"}
    /\ runs[j].executing = "none"
    /\ k <= Len(runs[j].memo)
    /\ runs' = [runs EXCEPT ![j].memo = SubSeq(@, 1, k - 1),
                            ![j].state = "running"]
    /\ UNCHANGED <<meetings, agents, file, users>>
    /\ UNCHANGED <<inflight, response, nresp, jobs, endedCalls, voiceVars>>

ReplayNext ==
    \/ PipeNext
    \/ \E j \in RunIds, k \in StepNumbers : Replay(j, k)

\* one run, re-executed from its checkpoints any number of times
ReplaySpec == PipeInit /\ [][ReplayNext]_vars

\* ------------------------------------------------------------ vocabulary

\* both headers present and the signature verifies
Signed(rq) == rq.hasSignature /\ rq.hasApiKey /\ rq.verified

\* signed, parseable, of event type t
IsEvent(rq, t) == Signed(rq) /\ rq.body.json /\ rq.body.type = t

\* this step returns a response
Responds == nresp' = nresp + 1

\* this step is a delivery that arrives and is answered at once
AnsweredAtOnce == Responds /\ inflight' = inflight

\* this step is a delivery that arrives and suspends in slot s
Suspends(s) == inflight[s].pc = "idle" /\ inflight'[s].pc # "idle"

StoreUntouched == meetings' = meetings /\ jobs' = jobs

\* ------------------------------------------------------------------- C1
\* C1: a delivery without a valid signature (x-signature or x-api-key
\* absent, or verification fails) is answered at once, 400 when a header is
\* absent and 401 when both are present but verification fails, whatever its
\* body; no row changes and no job is enqueued; such a delivery is never
\* suspended at a database call.
C1_UnsignedRejected ==
    [][ /\ \A s \in Slots : inflight'[s].pc # "idle" => Signed(inflight'[s].req)
        /\ (Responds /\ ~Signed(response'.req)) =>
              /\ StoreUntouched
              /\ endedCalls' = endedCalls
              /\ inflight' = inflight
              /\ response'.status =
                    IF ~response'.req.hasSignature \/ ~response'.req.hasApiKey
                    THEN 400 ELSE 401 ]_vars

\* a transcription-ready event for an existing meeting, signature not
\* verifying, was answered 401
C1_Witness ==
    /\ nresp > 0
    /\ response.req.hasSignature /\ response.req.hasApiKey /\ ~response.req.verified
    /\ response.req.body.type = "call.transcription_ready"
    /\ response.req.body.meetingId \in DOMAIN meetings
    /\ response.status = 401

\* ------------------------------------------------------------------- C2
\* C2: when the last answered delivery was a session-started for meeting m,
\* the next session-started delivery for m is answered 404 "Meeting not
\* found" at once: it does not pass the guard, and leaves every row
\* (status and startedAt included) as it was.
C2_SecondStartRejected ==
    [][ (/\ nresp > 0
         /\ IsEvent(response.req, "call.session_started")
         /\ response.req.body.meetingId # NoId) =>
           /\ \A s \in Slots :
                 Suspends(s) =>
                    ~(/\ inflight'[s].req.body.type = "call.session_started"
                      /\ inflight'[s].req.body.meetingId = response.req.body.meetingId)
           /\ (/\ AnsweredAtOnce
               /\ IsEvent(response'.req, "call.session_started")
               /\ response'.req.body.meetingId = response.req.body.meetingId) =>
                 /\ response'.status = 404
                 /\ response'.error = "Meeting not found"
                 /\ meetings' = meetings ]_vars

\* two deliveries, the meeting started by the first (startedAt read from the
\* clock in this behaviour), the second session-started answered 404
C2_Witness ==
    /\ nresp = 2
    /\ IsEvent(response.req, "call.session_started")
    /\ response.req.body.meetingId = "m1"
    /\ response.status = 404 /\ response.error = "Meeting not found"
    /\ meetings["m1"].status = "active"
    /\ meetings["m1"].startedAt = 2

\* ------------------------------------------------------------------- C3
\* C3: a transcription-ready event whose meeting id matches no row is
\* answered at once, enqueues no job and leaves the store unchanged; no
\* request whose id matches no row ever waits to send a job, and no job
\* names such an id.
C3_NoJobForUnknownMeeting ==
    [][ /\ \A s \in Slots :
              inflight'[s].pc = "send" => inflight'[s].id \in DOMAIN meetings
        /\ \A j \in 1..Len(jobs') : jobs'[j].meetingId \in DOMAIN meetings
        /\ (/\ Responds
            /\ IsEvent(response'.req, "call.transcription_ready")
            /\ response'.req.body.meetingId \notin DOMAIN meetings) =>
              /\ StoreUntouched
              /\ inflight' = inflight ]_vars

\* a transcription-ready event for an id that matches no row was answered
C3_Witness ==
    /\ nresp > 0
    /\ IsEvent(response.req, "call.transcription_ready")
    /\ response.req.body.meetingId = UnknownId
    /\ response.status = 400

\* ------------------------------------------------------------------- C4
\* C4: a transcription-ready event for an existing meeting id first sets
\* that row's transcriptUrl to the event's url, changing nothing else, and
\* is then answered 200 in a step that appends exactly one job carrying
\* that meeting id and that url.
C4_OneJobWithPersistedUrl ==
    [][ /\ \A s \in Slots :
              (Suspends(s) /\ inflight'[s].req.body.type = "call.transcription_ready") =>
                 LET b == inflight'[s].req.body IN
                 /\ b.meetingId \in DOMAIN meetings
                 /\ meetings' = [meetings EXCEPT ![b.meetingId].transcriptUrl = b.url]
                 /\ inflight'[s].pc = "send"
                 /\ jobs' = jobs
        /\ (/\ Responds
            /\ IsEvent(response'.req, "call.transcription_ready")
            /\ response'.req.body.meetingId \in DOMAIN meetings) =>
              LET b == response'.req.body IN
              /\ response'.status = 200
              /\ jobs' = Append(jobs, NewJob(b.meetingId, b.url))
              /\ meetings' = meetings ]_vars

\* the event with url u2 for m1 was answered: the row holds u2 and the one
\* job carries m1 and u2
C4_Witness ==
    /\ nresp = 1
    /\ IsEvent(response.req, "call.transcription_ready")
    /\ response.req.body.meetingId = "m1" /\ response.req.body.url = "u2"
    /\ response.status = 200
    /\ meetings["m1"].transcriptUrl = "u2"
    /\ Len(jobs) = 1
    /\ jobs[1].meetingId = "m1" /\ jobs[1].transcriptUrl = "u2"

\* ------------------------------------------------------------------- C5
Path == <<"upcoming", "active", "processing", "completed">>

OnPath(st) == \E i \in 1..Len(Path) : Path[i] = st

Rank(st) == CHOOSE i \in 1..Len(Path) : Path[i] = st

\* a change from status a to status b moves forward along Path
Forward(a, b) == OnPath(a) /\ OnPath(b) /\ Rank(a) < Rank(b)

\* C5 as claimed: every change of a meeting's status moves forward along
\* upcoming -> active -> processing -> completed (so no status is ever
\* replaced by an earlier one, and none of completed, active, cancelled,
\* processing is ever replaced by active).
C5_StatusMovesForward ==
    [][ \A m \in DOMAIN meetings :
           meetings'[m].status # meetings[m].status =>
              Forward(meetings[m].status, meetings'[m].status) ]_vars

\* ------------------------------------------------------------------- C6
\* C6: a row's summary changes, or its status becomes completed, only in
\* the save-summary step of a job for that row whose generate-summary step
\* has returned, and the value written is that step's non-empty string
\* together with status completed; before generate-summary returns a job
\* holds no summary; the step in which the runner gives up a job that
\* threw in generate-summary changes no row, and a job given up never runs
\* again, so the row keeps the status it had before the pipeline.
C6_SummaryOnlyAfterGeneration ==
    [][ /\ \A m \in DOMAIN meetings :
              (\/ meetings'[m].summary # meetings[m].summary
               \/ (meetings'[m].status = "completed" /\ meetings[m].status # "completed")) =>
                 \E j \in 1..Len(jobs) :
                    /\ jobs[j].meetingId = m
                    /\ jobs[j].step = 4 /\ jobs'[j].step = 5
                    /\ jobs[j].summary \notin {"", NullText}
                    /\ meetings'[m].summary = jobs[j].summary
                    /\ meetings'[m].status = "completed"
        /\ \A j \in 1..Len(jobs) :
              /\ jobs[j].step < 4 => jobs[j].summary = NullText
              /\ jobs[j].step >= 4 => jobs[j].summary \notin {"", NullText}
              /\ (jobs[j].state = "running" /\ jobs[j].step = 3
                                            /\ jobs'[j].state = "failed") =>
                    meetings' = meetings
              /\ jobs[j].state = "failed" => jobs'[j] = jobs[j] ]_vars

\* the runner has failed a job in generate-summary: the row it names is
\* still processing and has no summary
C6_Witness ==
    \E j \in 1..Len(jobs) :
       /\ jobs[j].state = "failed" /\ jobs[j].step = 3
       /\ meetings[jobs[j].meetingId].status = "processing"
       /\ meetings[jobs[j].meetingId].summary = NullText

\* ------------------------------------------------------------------- C7
\* C7 as claimed: two deliveries of the same transcription-ready event never
\* both get past the row-affected check to send a job, and the queue never
\* holds two jobs for the same event.
C7_DuplicatesTriggerOneJob ==
    /\ \A s, t \in Slots :
          (s # t /\ inflight[s].pc = "send" /\ inflight[t].pc = "send") =>
             inflight[s].req # inflight[t].req
    /\ \A i, j \in 1..Len(jobs) :
          (i # j /\ jobs[i].meetingId = jobs[j].meetingId) =>
             jobs[i].transcriptUrl # jobs[j].transcriptUrl

\* ------------------------------------------------------------------- C8
\* a request past the update of call.session_started has written its row
HasWritten(s) == inflight[s].pc = "agent"

\* C8 as claimed: a signed delivery answered with a client error (400 or
\* 404) has written no row and enqueued no job, in the answering step or in
\* an earlier step of the same invocation; every other answer to a signed
\* delivery is 200 "ok".
C8_ClientErrorLeavesStore ==
    [][ (Responds /\ Signed(response'.req)) =>
           IF response'.status \in {400, 404}
           THEN /\ StoreUntouched
                /\ \A s \in Slots :
                      (inflight[s].pc # "idle" /\ inflight'[s].pc = "idle") =>
                         ~HasWritten(s)
           ELSE response'.status = 200 /\ response'.error = "ok" ]_vars

\* ------------------------------------------------------------------- C9
\* the status C9 gives for a signed, well-formed delivery
C9_Expected(rq, st, err) ==
    LET b == rq.body IN
    IF b.type \in {"call.session_started", "call.session_participant_left",
                   "call.session_ended", "call.transcription_ready",
                   "call.recording_ready"} /\ b.meetingId = NoId
    THEN st = 400
    ELSE IF b.type \in {"call.session_started", "call.transcription_ready",
                        "call.recording_ready"} /\ b.meetingId \notin DOMAIN meetings
    THEN st = 404
    ELSE IF st = 200 THEN err = "ok"
    ELSE st = 404 /\ b.type = "call.session_started"

\* C9 as claimed: a signed, well-formed delivery is answered 400 when its
\* meeting id is missing, 404 when the meeting (session-started,
\* transcription-ready, recording-ready) or the agent is not found, and
\* 200 "ok" otherwise.
C9_StatusCodes ==
    [][ (Responds /\ Signed(response'.req) /\ response'.req.body.json) =>
           C9_Expected(response'.req, response'.status, response'.error) ]_vars

\* ------------------------------------------------------------------ C10
\* C10: a signed delivery whose event type is none of the five known kinds
\* is answered 200 "ok" at once: no row changes, no job is enqueued, no
\* call is ended, and it is never suspended at a database call.
C10_UnknownKindIgnored ==
    [][ /\ \A s \in Slots : inflight'[s].req.body.type # "call.other"
        /\ (Responds /\ IsEvent(response'.req, "call.other")) =>
              /\ response'.status = 200 /\ response'.error = "ok"
              /\ StoreUntouched
              /\ endedCalls' = endedCalls
              /\ inflight' = inflight ]_vars

\* an event of an unknown kind naming an existing meeting was answered 200
C10_Witness ==
    /\ nresp > 0
    /\ IsEvent(response.req, "call.other")
    /\ response.req.body.meetingId \in DOMAIN meetings
    /\ response.status = 200

\* ------------------------------------------------------------------ C11
\* statuses the guarded select of call.session_started excludes
Excluded == {"completed", "active", "cancelled", "processing"}

\* C11: a session-started delivery passes the guard only for an existing
\* meeting whose status is upcoming; its update then sets that row, and no
\* other, to status active with startedAt read from the clock, and when the
\* meeting's agent exists the delivery is answered 200 without a further
\* write.  A session-started delivery for an existing meeting whose status
\* is completed, active, cancelled or processing is answered 404 "Meeting
\* not found" at once and leaves every row as it was.
C11_StartOnlyFromUpcoming ==
    [][ /\ \A s \in Slots :
              (Suspends(s) /\ inflight'[s].req.body.type = "call.session_started") =>
                 LET m == inflight'[s].req.body.meetingId IN
                 /\ m \in DOMAIN meetings
                 /\ meetings[m].status = "upcoming"
                 /\ inflight'[s].pc = "update" /\ inflight'[s].id = m
                 /\ inflight'[s].agentId = meetings[m].agentId
        /\ \A s \in Slots :
              (inflight[s].pc = "update" /\ inflight'[s].pc # "update") =>
                 /\ meetings' = [meetings EXCEPT ![inflight[s].id].status = "active",
                                                 ![inflight[s].id].startedAt = Date]
                 /\ Date # NullTime
                 /\ inflight'[s].pc = "agent"
        /\ \A s \in Slots :
              (inflight[s].pc = "agent" /\ inflight'[s].pc # "agent") =>
                 /\ meetings' = meetings
                 /\ response'.req = inflight[s].req
                 /\ inflight[s].agentId \in agents =>
                       response'.status = 200 /\ response'.error = "ok"
        /\ (/\ AnsweredAtOnce
            /\ IsEvent(response'.req, "call.session_started")
            /\ response'.req.body.meetingId \in DOMAIN meetings) =>
              /\ meetings[response'.req.body.meetingId].status \in Excluded
              /\ response'.status = 404 /\ response'.error = "Meeting not found"
              /\ StoreUntouched ]_vars

\* the first delivery, a session-started for the upcoming meeting m1 whose
\* agent exists, was answered 200: the row is active with startedAt set
C11_Witness ==
    /\ nresp = 1
    /\ IsEvent(response.req, "call.session_started")
    /\ response.req.body.meetingId = "m1"
    /\ response.status = 200
    /\ meetings["m1"].status = "active"
    /\ meetings["m1"].startedAt = 2
    /\ meetings["m1"].endedAt = NullTime

\* ------------------------------------------------------------------ C12
\* C12: a session-ended delivery is answered in the one step that holds its
\* conditional update: when the meeting exists with status active, that row
\* alone changes, to status processing with endedAt read from the clock;
\* for any other status, an id that matches no row or a missing id, no row
\* changes; no job is enqueued either way.  A second delivery of the event
\* therefore finds status processing and changes nothing.
C12_EndOnlyFromActive ==
    [][ /\ \A s \in Slots : inflight'[s].req.body.type # "call.session_ended"
        /\ (Responds /\ IsEvent(response'.req, "call.session_ended")) =>
              LET m == response'.req.body.meetingId IN
              /\ inflight' = inflight
              /\ jobs' = jobs
              /\ IF m \in DOMAIN meetings /\ meetings[m].status = "active"
                 THEN /\ meetings' = [meetings EXCEPT ![m].status = "processing",
                                                      ![m].endedAt = Date]
                      /\ Date # NullTime
                 ELSE meetings' = meetings ]_vars

\* two deliveries of session-ended for the active meeting m1: the row is
\* processing and endedAt is the time of the first
C12_Witness ==
    /\ nresp = 2
    /\ IsEvent(response.req, "call.session_ended")
    /\ response.req.body.meetingId = "m1"
    /\ response.status = 200
    /\ meetings["m1"].status = "processing"
    /\ meetings["m1"].endedAt = 2

\* ------------------------------------------------------------------ C13
\* ms milliseconds rounded up to whole seconds
RoundedUpSeconds(ms) ==
    CHOOSE n \in 0..(ms \div 1000 + 1) : n * 1000 >= ms /\ (n - 1) * 1000 < ms

\* C13: a request is forwarded to the backend only at least 3000 ms after
\* the request forwarded before it, so no 3-second window holds two; an
\* utterance handled less than 3000 ms after the last forwarded request
\* reaches neither the network nor the endpoint and sets the displayed text
\* to the wait message with the remaining time rounded up to whole seconds.
C13_RateLimit ==
    [][ /\ lastFetch' # lastFetch =>
              /\ lastFetch' = clock
              /\ lastFetch # 0 => clock - lastFetch >= 3000
        /\ (utterances' # utterances /\ lastFetch # 0 /\ clock - lastFetch < 3000) =>
              /\ lastFetch' = lastFetch
              /\ post' = post
              /\ reply' = reply
              /\ aiResponse' =
                    WaitMessage(RoundedUpSeconds(3000 - (clock - lastFetch))) ]_vars

\* an utterance one second after a forwarded request: "Please wait 2
\* seconds..." is displayed
C13_Witness ==
    /\ utterances >= 2
    /\ lastFetch # 0
    /\ clock - lastFetch = 1000
    /\ aiResponse = WaitMessage(2)

\* ------------------------------------------------------------------ C14
\* C14 as claimed: the endpoint answers 500 when the API key is not
\* configured, without reading the body or calling the AI; otherwise 400
\* when the body has no text; otherwise 429 when the AI call fails with a
\* quota indicator and 500 on any other failure; otherwise 200 with
\* {response, success: true}.
C14_StatusTable ==
    [][ reply' # reply =>
           LET r == reply' IN
           IF ~hasKey
           THEN r.status = 500 /\ r.thrownBy = "none"
           ELSE IF r.req.json /\ r.req.text \in {AbsentText, ""}
           THEN r.status = 400
           ELSE IF /\ r.thrownBy = "ai"
                   /\ (Includes(r.thrown, "quota")
                          \/ Includes(r.thrown, "RESOURCE_EXHAUSTED"))
           THEN r.status = 429
           ELSE IF r.thrownBy # "none"
           THEN r.status = 500
           ELSE r.status = 200 /\ r.success /\ r.response # AbsentText ]_vars

\* ------------------------------------------------------------------ C15
IsPrefix(s, t) == Len(s) <= Len(t) /\ \A i \in 1..Len(s) : s[i] = t[i]

\* the ids of the steps of run r that have a checkpoint, in the order the
\* checkpoints were taken
Checkpointed(r) == [i \in 1..Len(r.memo) |-> r.memo[i].id]

\* C15: in every run the checkpoints are taken in the order fetch-transcript,
\* parse-transcript, add-speakers, generate-summary, save-summary, one per
\* step, and none is ever lost or replaced; a checkpoint is taken only by
\* the step that was executing; the step that executes is always the first
\* one without a checkpoint, so a step starts only after its predecessor's
\* result is checkpointed and, after a throw and a retry, no step that has
\* completed is executed again.
C15_StepsInOrder ==
    [][ \A j \in 1..Len(runs) :
           LET r == runs[j]
               q == runs'[j]
           IN /\ IsPrefix(Checkpointed(q), StepIds)
              /\ IsPrefix(r.memo, q.memo)
              /\ Len(q.memo) <= Len(r.memo) + 1
              /\ Len(q.memo) = Len(r.memo) + 1 =>
                    r.executing = StepIds[Len(r.memo) + 1]
              /\ q.executing # "none" =>
                    /\ Len(q.memo) < Len(StepIds)
                    /\ q.executing = StepIds[Len(q.memo) + 1] ]_vars

\* a run in which a step threw and was retried has completed its five steps
C15_Witness ==
    \E j \in 1..Len(runs) :
       /\ runs[j].state = "done"
       /\ runs[j].attempt >= 1
       /\ Checkpointed(runs[j]) = StepIds

\* ------------------------------------------------------------------ C16
\* this step belongs to a webhook invocation
WebhookStep == inflight' # inflight \/ nresp' # nresp

\* C16: a row's status becomes completed only in the save-summary step of
\* a job that names the row; that step is no step of a webhook invocation
\* (no request arrives, moves on or is answered in it), so no webhook
\* handler sets status completed.
C16_OnlySaveSummaryCompletes ==
    [][ \A m \in DOMAIN meetings :
           (meetings'[m].status = "completed" /\ meetings[m].status # "completed") =>
              /\ ~WebhookStep
              /\ \E j \in 1..Len(jobs) :
                    /\ jobs[j].meetingId = m
                    /\ jobs[j].state = "running" /\ jobs[j].step = 4
                    /\ jobs'[j].state = "done" ]_vars

\* save-summary has completed the meeting that the webhook had left in
\* processing
C16_Witness ==
    \E j \in 1..Len(jobs) :
       /\ jobs[j].state = "done"
       /\ meetings[jobs[j].meetingId].status = "completed"
       /\ meetings[jobs[j].meetingId].summary = "Summary generation failed"
       /\ meetings[jobs[j].meetingId].endedAt # NullTime

\* ------------------------------------------------------------------ C17
\* C17 as claimed: whenever a meeting's status becomes completed, its status
\* immediately before was processing, under any order of deliveries.
C17_CompletedOnlyFromProcessing ==
    [][ \A m \in DOMAIN meetings :
           (meetings'[m].status = "completed" /\ meetings[m].status # "completed") =>
              meetings[m].status = "processing" ]_vars

\* ------------------------------------------------------------------ C18
\* C18 as claimed: once a meeting's status is completed or cancelled, no
\* step changes it.
C18_TerminalStatuses ==
    [][ \A m \in DOMAIN meetings :
           meetings[m].status \in {"completed", "cancelled"} =>
              meetings'[m].status = meetings[m].status ]_vars

\* ------------------------------------------------------------------ C19
\* C19: the result of add-speakers has one item per transcript item, in the
\* same order and with the item's own fields; the item's user.name is the
\* name of a user row or of an agent row whose id is the item's speaker_id,
\* and is "Unknown" exactly when neither table holds that id; a run that
\* fails in add-speakers fails on a database error or on an empty list of
\* speaker ids, never on a speaker without a match.
C19_SpeakersResolved ==
    \A j \in 1..Len(runs) :
       /\ Len(runs[j].memo) >= 3 =>
             LET t == Result(j, 2)
                 a == Result(j, 3)
             IN /\ Len(a) = Len(t)
                /\ \A i \in 1..Len(t) :
                      LET id == t[i].speaker_id IN
                      /\ a[i].speaker_id = id
                      /\ a[i].start_ts = t[i].start_ts
                      /\ a[i].user.name = "Unknown" <=>
                            (id \notin users /\ id \notin agents)
                      /\ a[i].user.name \in
                            {"Unknown"}
                            \cup {UserName(u) : u \in users \cap {id}}
                            \cup {AgentName(g) : g \in agents \cap {id}}
       /\ (runs[j].state = "failed" /\ Len(runs[j].memo) = 2) =>
             /\ runs[j].error \in {"database", "inArray"}
             /\ runs[j].error = "inArray" => Result(j, 2) = <<>>

\* add-speakers has returned for a transcript whose first speaker matches
\* no row and whose second is a user
C19_Witness ==
    \E j \in 1..Len(runs) :
       /\ Len(runs[j].memo) >= 3
       /\ Len(Result(j, 3)) = 2
       /\ Result(j, 3)[1].speaker_id = "x1"
       /\ Result(j, 3)[1].user.name = "Unknown"
       /\ Result(j, 3)[2].speaker_id = "p1"
       /\ Result(j, 3)[2].user.name = UserName("p1")

\* ------------------------------------------------------------------ C20
\* C20 as claimed: two runs that are each executing a step never name the
\* same meeting.
C20_OneStepPerMeeting ==
    \A i, j \in 1..Len(runs) :
       (i # j /\ runs[i].executing # "none" /\ runs[j].executing # "none") =>
          runs[i].meetingId # runs[j].meetingId

\* ------------------------------------------------------------------ C21
\* the store the run starts on
OriginalStore ==
    [m \in MeetingIds |-> IF m = "m1" THEN EndedRow(m) ELSE NewRow(m)]

\* store st after one execution of save-summary for meeting m with summary s
SavedOnce(st, m, s) == [st EXCEPT ![m].summary = s, ![m].status = "completed"]

\* C21: however often a run is executed again from one of its checkpoints,
\* no step before save-summary changes the store; an execution of
\* save-summary overwrites summary and status of the run's row with the
\* checkpointed summary and completed, and nothing else; and whenever the
\* run has its five checkpoints the store is the one a single execution of
\* save-summary with the checkpointed summary leaves of the store the run
\* started on.
C21_ReexecutionSafe ==
    [][ \A j \in 1..Len(runs) :
           LET m == runs[j].meetingId IN
           /\ runs[j].executing # "save-summary" => meetings' = meetings
           /\ (runs[j].executing = "save-summary" /\ meetings' # meetings) =>
                 meetings' = SavedOnce(meetings, m, runs[j].memo[4].data)
           /\ Len(runs'[j].memo) = Len(StepIds) =>
                 meetings' = SavedOnce(OriginalStore, m, runs'[j].memo[4].data) ]_vars

\* save-summary is executing again for a run whose earlier execution has
\* written the row
C21_Witness ==
    \E j \in 1..Len(runs) :
       /\ runs[j].executing = "save-summary"
       /\ meetings[runs[j].meetingId].status = "completed"
       /\ meetings[runs[j].meetingId].summary = runs[j].memo[4].data

\* ------------------------------------------------------------------ C22
\* C22 as claimed: the update of call.session_started that sets status
\* active is applied only to a row whose status, in the state the update
\* acts on, is none of active, processing, completed, cancelled.
C22_GuardHoldsAtWrite ==
    [][ \A s \in Slots :
           (inflight[s].pc = "update" /\ inflight'[s].pc # "update") =>
              meetings[inflight[s].id].status \notin Excluded ]_vars

\* ------------------------------------------------------------------ C23
\* the runner has given a run up: a step of it did not succeed in the end
JobGivenUp == \E j \in 1..Len(jobs) : jobs[j].state = "failed"

\* C23: when session_started, session_ended and transcription_ready arrive
\* in that order for an upcoming meeting, then, unless a step of the
\* pipeline fails for good, the meeting eventually has status completed
\* and a summary.
C23_LifecycleCompletes ==
    <>(\/ JobGivenUp
       \/ /\ meetings["m1"].status = "completed"
          /\ meetings["m1"].summary # NullText)

\* the three deliveries were answered 200 one after the other and the
\* pipeline has run: m1 is completed with its summary, started and ended
C23_Witness ==
    /\ nresp = 3
    /\ response.status = 200
    /\ meetings["m1"].status = "completed"
    /\ meetings["m1"].summary = "s1"
    /\ meetings["m1"].startedAt = 2
    /\ meetings["m1"].endedAt = 3
    /\ meetings["m1"].transcriptUrl # NullUrl
    /\ \A j \in 1..Len(jobs) : jobs[j].state = "done"
====
